---- MODULE Spec2Model ----
(***************************************************************************)
(* A model of Alpha.py, the interactive Geant4 source installer.           *)
(*                                                                         *)
(* Python strings are TLA+ strings; str methods are operators computed     *)
(* character by character.  A Python value that may be None is a record    *)
(* [type |-> "str", val |-> s] or [type |-> "NoneType"].                   *)
(*                                                                         *)
(* The environment is reduced to what the script branches on: the exit     *)
(* status of every subprocess, the lines typed at the prompts, the host    *)
(* identification, the lsb_release / os-release probes, the tag page, and  *)
(* the files the script itself tests, creates or removes.  Failures of the *)
(* Python file calls themselves (disk full, permissions) and of the HTTP   *)
(* request are not part of the model.                                      *)
(***************************************************************************)
EXTENDS Integers, Sequences, FiniteSets, TLC

(***************************************************************************)
(* str helpers                                                             *)
(***************************************************************************)
Char(s, i) == SubSeq(s, i, i)

Uppercase == "ABCDEFGHIJKLMNOPQRSTUVWXYZ"

Lowercase == "abcdefghijklmnopqrstuvwxyz"

Digits == "0123456789"

IndexIn(alphabet, c) == CHOOSE i \in 1..Len(alphabet) : Char(alphabet, i) = c

IsIn(alphabet, c) == \E i \in 1..Len(alphabet) : Char(alphabet, i) = c

LowerChar(c) == IF IsIn(Uppercase, c) THEN Char(Lowercase, IndexIn(Uppercase, c)) ELSE c

RECURSIVE Lower(_)
\* str.lower()
Lower(s) == IF Len(s) = 0 THEN ""
            ELSE LowerChar(Char(s, 1)) \o Lower(SubSeq(s, 2, Len(s)))

\* sub in s
Contains(sub, s) ==
    \E i \in 1..(Len(s) - Len(sub) + 1) : SubSeq(s, i, i + Len(sub) - 1) = sub

\* s.startswith(p)
StartsWith(s, p) == Len(s) >= Len(p) /\ SubSeq(s, 1, Len(p)) = p

RECURSIVE StripChars(_, _)
\* s.strip(chars)
StripChars(s, chars) ==
    IF Len(s) = 0 THEN s
    ELSE IF IsIn(chars, Char(s, 1)) THEN StripChars(SubSeq(s, 2, Len(s)), chars)
    ELSE IF IsIn(chars, Char(s, Len(s))) THEN StripChars(SubSeq(s, 1, Len(s) - 1), chars)
    ELSE s

Whitespace == " \t\n"

\* s.strip()
Strip(s) == StripChars(s, Whitespace)

RECURSIVE Split(_, _)
\* s.split(sep) for a one-character separator
Split(s, sep) ==
    IF ~IsIn(s, sep) THEN <<s>>
    ELSE LET i == CHOOSE k \in 1..Len(s) :
                      /\ Char(s, k) = sep
                      /\ \A j \in 1..(k - 1) : Char(s, j) # sep
         IN  <<SubSeq(s, 1, i - 1)>> \o Split(SubSeq(s, i + 1, Len(s)), sep)

RECURSIVE DigitsValue(_)
DigitsValue(s) ==
    IF Len(s) = 0 THEN 0
    ELSE DigitsValue(SubSeq(s, 1, Len(s) - 1)) * 10 + (IndexIn(Digits, Char(s, Len(s))) - 1)

AllDigits(s) == Len(s) > 0 /\ \A i \in 1..Len(s) : IsIn(Digits, Char(s, i))

\* int(s): surrounding whitespace and one sign are accepted, anything else
\* raises ValueError (ok = FALSE)
ParseInt(s) ==
    LET t    == Strip(s)
        sign == IF Len(t) > 0 /\ Char(t, 1) \in {"+", "-"} THEN Char(t, 1) ELSE ""
        body == SubSeq(t, Len(sign) + 1, Len(t))
    IN  IF AllDigits(body)
        THEN [ok |-> TRUE,
              val |-> IF sign = "-" THEN 0 - DigitsValue(body) ELSE DigitsValue(body)]
        ELSE [ok |-> FALSE, val |-> 0]

RECURSIVE IntToStr(_)
\* f"{n}" of an int
IntToStr(n) ==
    IF n < 0 THEN "-" \o IntToStr(0 - n)
    ELSE IF n < 10 THEN Char(Digits, n + 1)
    ELSE IntToStr(n \div 10) \o Char(Digits, (n % 10) + 1)

Str(s) == [type |-> "str", val |-> s]

NoneValue == [type |-> "NoneType"]

(***************************************************************************)
(* get_linux_distro and detect_os                                          *)
(***************************************************************************)
\* Lines of /etc/os-release that carry the key: line.startswith("PRETTY_NAME")
PrettyLines(lines) == {i \in 1..Len(lines) : StartsWith(lines[i], "PRETTY_NAME")}

\* lsb is the outcome of `lsb_release -ds` (ok = FALSE: missing tool or nonzero
\* exit, both raise inside the try); osrel is /etc/os-release (readable =
\* FALSE: open() raises).  A for loop that ends without a match falls off the
\* end of the function, which returns None.
get_linux_distro(lsb, osrel) ==
    IF lsb.ok THEN Str(StripChars(Strip(lsb.stdout), "\""))
    ELSE IF ~osrel.readable THEN Str("Unknown")
    ELSE IF PrettyLines(osrel.lines) = {} THEN NoneValue
    ELSE LET i     == CHOOSE k \in PrettyLines(osrel.lines) :
                          \A j \in PrettyLines(osrel.lines) : k <= j
             parts == Split(Strip(osrel.lines[i]), "=")
         IN  IF Len(parts) < 2 THEN Str("Unknown")     \* IndexError, caught
             ELSE Str(StripChars(parts[2], "\""))

\* host is [os_name, system, release]: os.name, platform.system(),
\* platform.release()
detect_os(host, lsb, osrel) ==
    [os_type |-> IF host.os_name = "nt" THEN "Windows"
                 ELSE IF Contains("microsoft", Lower(host.release)) THEN "WSL"
                 ELSE "Linux",
     distro  |-> IF host.system = "Linux" THEN get_linux_distro(lsb, osrel)
                 ELSE Str("N/A")]

(***************************************************************************)
(* get_latest_geant4_version: ordering of the tags                         *)
(***************************************************************************)
\* list(map(int, x.split(".")))
VersionKey(x) ==
    LET parts == Split(x, ".") IN [i \in 1..Len(parts) |-> ParseInt(parts[i]).val]

\* Python's a < b on lists of ints
ListLess(a, b) ==
    \/ \E k \in 1..Len(a) :
          /\ k <= Len(b)
          /\ a[k] < b[k]
          /\ \A j \in 1..(k - 1) : a[j] = b[j]
    \/ /\ Len(a) < Len(b)
       /\ \A j \in 1..Len(a) : a[j] = b[j]

\* set(matches)
SetOf(seq) == {seq[i] : i \in 1..Len(seq)}

RECURSIVE SortedDescending(_)
\* sorted(S, key=VersionKey, reverse=True) for a set S: the sort is stable and
\* a set's iteration order is arbitrary, so elements with equal keys may come
\* out in any order.  The result is the set of lists sorted() can return.
SortedDescending(S) ==
    IF S = {} THEN {<<>>}
    ELSE UNION { { <<m>> \o rest : rest \in SortedDescending(S \ {m}) } :
                 m \in {x \in S : \A y \in S : ~ListLess(VersionKey(x), VersionKey(y))} }

\* versions[:5], the entries printed in the menu
MenuSize == 5

\* 1 <= choice <= 5
MaxChoice == 5

Menu(vs) == SubSeq(vs, 1, IF Len(vs) < MenuSize THEN Len(vs) ELSE MenuSize)

(***************************************************************************)
(* install_packages: the command templates                                 *)
(***************************************************************************)
PacmanCmd == "sudo pacman -Sy --noconfirm cmake gcc binutils glew libjpeg-turbo libpng libtiff giflib libxml2 openssl fftw qt5-base qt5-tools mesa glu libxmu"

AptCmd == "sudo apt update && sudo apt install -y cmake cmake-curses-gui g++ gcc binutils libx11-dev libxpm-dev libxft-dev libxext-dev libglew-dev libjpeg-dev libpng-dev libtiff-dev libgif-dev libxml2-dev libssl-dev libfftw3-dev qtbase5-dev qtchooser qttools5-dev-tools libgl1-mesa-dev libglu1-mesa-dev libxmu-dev"

ZypperCmd == "sudo zypper install -y cmake gcc gcc-c++ libX11-devel libXpm-devel libXft-devel libXext-devel glew-devel libjpeg-devel libpng-devel libtiff-devel giflib-devel libxml2-devel libopenssl-devel fftw3-devel libqt5-qtbase-devel Mesa-libGL-devel Mesa-libGLU-devel libXmu-devel"

DnfRhelCmd == "sudo dnf install -y cmake gcc gcc-c++ binutils libX11-devel libXpm-devel libXft-devel libXext-devel glew-devel libjpeg-turbo-devel libpng-devel libtiff-devel giflib-devel libxml2-devel openssl-devel fftw-devel qt5-qtbase-devel qt5-qttools-devel mesa-libGL-devel mesa-libGLU-devel libXmu-devel"

Dnf5FedoraCmd == "sudo dnf5 install -y cmake gcc gcc-c++ binutils qt5-qtbase-devel qt5-qttools-devel mesa-libGL-devel mesa-libGLU-devel libXmu-devel"

DnfFedoraCmd == "sudo dnf install -y cmake gcc gcc-c++ binutils qt5-qtbase-devel qt5-qttools-devel mesa-libGL-devel mesa-libGLU-devel libXmu-devel"

\* the chain with the distro string compared as it is, not lowered
pkg_cmd_no_lower(d, release) ==
    IF Contains("arch", d) THEN [found |-> TRUE, cmd |-> PacmanCmd]
    ELSE IF \E name \in {"ubuntu", "debian", "mint"} : Contains(name, d)
         THEN [found |-> TRUE, cmd |-> AptCmd]
    ELSE IF Contains("opensuse", d) THEN [found |-> TRUE, cmd |-> ZypperCmd]
    ELSE IF Contains("rocky", d) \/ Contains("rhel", d)
         THEN [found |-> TRUE, cmd |-> DnfRhelCmd]
    ELSE IF Contains("fedora", d)
         THEN [found |-> TRUE,
               cmd |-> IF StartsWith(release, "41") THEN Dnf5FedoraCmd ELSE DnfFedoraCmd]
    ELSE [found |-> FALSE, cmd |-> ""]

\* The if/elif chain of install_packages on a str: the command to run, or
\* found = FALSE for the final else (warning, return).
pkg_cmd(d, release) ==
    IF Contains("arch", Lower(d)) THEN [found |-> TRUE, cmd |-> PacmanCmd]
    ELSE IF \E name \in {"ubuntu", "debian", "mint"} : Contains(name, Lower(d))
         THEN [found |-> TRUE, cmd |-> AptCmd]
    ELSE IF Contains("opensuse", Lower(d)) THEN [found |-> TRUE, cmd |-> ZypperCmd]
    ELSE IF Contains("rocky", Lower(d)) \/ Contains("rhel", Lower(d))
         THEN [found |-> TRUE, cmd |-> DnfRhelCmd]
    ELSE IF Contains("fedora", Lower(d))
         THEN [found |-> TRUE,
               cmd |-> IF StartsWith(release, "41") THEN Dnf5FedoraCmd ELSE DnfFedoraCmd]
    ELSE [found |-> FALSE, cmd |-> ""]

(***************************************************************************)
(* install_geant4: names derived from the chosen version                   *)
(***************************************************************************)
\* get_script_directory(); the value is a representative absolute path
get_script_directory == "/home/user/Gent"

tarball(v) == "geant4-v" \o v \o ".tar.gz"

tar_url(v) == "https://gitlab.cern.ch/geant4/geant4/-/archive/v" \o v \o "/" \o tarball(v)

src_dir(v) == "geant4-v" \o v

build_dir(v) == "geant4-v" \o v \o "-build"

install_path(v) == get_script_directory \o "/Geant4/" \o "geant4-v" \o v \o "-install"

alias_cmd(v) ==
    "alias geant4make=\"source " \o install_path(v) \o "/share/Geant4/geant4make/geant4make.sh\""

(***************************************************************************)
(* The environment the runs draw from                                      *)
(***************************************************************************)
\* Number of times the script is run, one run after the other
MaxRuns == 2

\* [os_name, system, release] of the machine
Hosts ==
    { [os_name |-> "nt",    system |-> "Windows", release |-> "10"],
      [os_name |-> "posix", system |-> "Linux",   release |-> "4.4.0-19041-Microsoft"],
      [os_name |-> "posix", system |-> "Linux",   release |-> "6.8.0-45-generic"],
      [os_name |-> "posix", system |-> "Darwin",  release |-> "23.5.0"] }

\* Outcomes of `lsb_release -ds`
LsbResults ==
    { [ok |-> FALSE, stdout |-> ""],
      [ok |-> TRUE,  stdout |-> "\"Ubuntu 22.04.3 LTS\"\n"] }

\* /etc/os-release: unreadable, well formed, without the key, key without "="
OsReleaseFiles ==
    { [readable |-> FALSE, lines |-> <<>>],
      [readable |-> TRUE,  lines |-> <<"NAME=\"Ubuntu\"\n",
                                       "PRETTY_NAME=\"Ubuntu 22.04.3 LTS\"\n">>],
      [readable |-> TRUE,  lines |-> <<"NAME=Void\n", "ID=void\n">>],
      [readable |-> TRUE,  lines |-> <<"PRETTY_NAME\n">>] }

\* Version strings the tag page of a full run can carry
PipelineTags == {"11.2.2", "11.1"}

\* Version strings for the version resolver on its own: two- and
\* three-component, more than MenuSize of them, two that differ by a leading zero
ResolverTags == {"11.2", "11.02", "11.2.1", "11.2.0", "11.1.3", "10.7.4", "9.6"}

RECURSIVE Enumerate(_)
\* Some list of the elements of a set
Enumerate(S) ==
    IF S = {} THEN <<>>
    ELSE LET x == CHOOSE y \in S : TRUE IN <<x>> \o Enumerate(S \ {x})

\* What re.findall can return on a page whose tags are drawn from `universe`:
\* the tags of the page, each found once or (a link and its title) twice
TagPages(universe) ==
    { Enumerate(S) \o Enumerate(D) : <<S, D>> \in
        { <<S1, D1>> \in (SUBSET universe) \X (SUBSET universe) : D1 \in {{}, S1} } }

\* Lines typed at "Choose a version to install (1-5): "
ChoiceInputs == {"1", "2", " 3", "5", "0", "6", "-1", "x", ""}

\* Lines typed at the two three-way menus
MenuInputs == {"R", "C", "S", "A", " a", "q", ""}

\* Lines typed at "Enter the number of CPU cores for compilation: "
CoreInputs == {"4", " 2 ", "0", "-3", "abc", "", "2.5"}

(***************************************************************************)
(* State                                                                   *)
(***************************************************************************)
VARIABLES
    host,       \* the machine: os.name, platform.system(), platform.release()
    fs,         \* <script_dir>/Geant4: name |-> "file", "empty_dir", "nonempty_dir"
    bashrc,     \* ~/.bashrc: the strings written to it, in order
    run,        \* number of the current run of the script
    aborted,    \* number of earlier runs that ended before the .bashrc write
    pc,         \* position of the current run in install_geant4
    exit,       \* [exited, code, cause] of the current run
    os_type,    \* locals of install_geant4 ...
    distro,
    versions,   \* ... and of get_latest_geant4_version
    version,
    cores,
    stdin,      \* the last line read by input()
    cwd,        \* os.getcwd()
    log,        \* this run's subprocesses and menu answers, in order
    stages      \* this run's pipeline stages, in the order they were begun

vars == <<host, fs, bashrc, run, aborted, pc, exit, os_type, distro, versions,
          version, cores, stdin, cwd, log, stages>>

machine == <<host, fs, bashrc, run, aborted>>

locals == <<os_type, distro, versions, version, cores>>

geant4_dir == get_script_directory \o "/Geant4"

Running == [exited |-> FALSE, code |-> 0, cause |-> "running"]

StartOfRun ==
    /\ pc = "start"
    /\ exit = Running
    /\ os_type = ""
    /\ distro = Str("")
    /\ versions = <<>>
    /\ version = ""
    /\ cores = 0
    /\ stdin = ""
    /\ cwd = "."
    /\ log = <<>>
    /\ stages = <<>>

Init ==
    /\ host \in Hosts
    /\ fs = [x \in {} |-> "file"]
    /\ bashrc = <<>>
    /\ run = 1
    /\ aborted = 0
    /\ StartOfRun

Exists(path) == path \in DOMAIN fs

SetFile(f, path, kind) == [x \in DOMAIN f \cup {path} |-> IF x = path THEN kind ELSE f[x]]

RemoveFile(f, path) == [x \in DOMAIN f \ {path} |-> f[x]]

\* sys.exit(code), the return of install_geant4 (code 0) and an exception
\* nothing catches (traceback, code 1) all end the run
Exit(code, cause) == exit' = [exited |-> TRUE, code |-> code, cause |-> cause]

Enter(stage) ==
    stages' = IF stages # <<>> /\ stages[Len(stages)] = stage THEN stages
              ELSE Append(stages, stage)

CommandEvent(command, description, ok) ==
    [kind |-> "run", text |-> command, desc |-> description, ok |-> ok]

InputEvent(prompt, line) ==
    [kind |-> "input", text |-> line, desc |-> prompt, ok |-> TRUE]

\* subprocess.run without check=True: a nonzero status goes unnoticed
run_command_unchecked(command, description, ok, next) ==
    /\ log' = Append(log, CommandEvent(command, description, ok))
    /\ pc' = next
    /\ UNCHANGED exit

\* run_command: the subprocess ends with status 0 (ok) or nonzero; nonzero
\* raises CalledProcessError, which is caught and turned into sys.exit(1)
run_command(command, description, ok, next) ==
    /\ log' = Append(log, CommandEvent(command, description, ok))
    /\ IF ok THEN pc' = next /\ UNCHANGED exit
             ELSE UNCHANGED pc /\ Exit(1, "fatal")

(***************************************************************************)
(* install_geant4, one action per step                                     *)
(***************************************************************************)
At(position) == pc = position /\ ~exit.exited

\* detect_os(), the Windows check, makedirs/chdir of <script_dir>/Geant4
DetectOS ==
    /\ At("start")
    /\ \E lsb \in LsbResults, osrel \in OsReleaseFiles :
         LET d == detect_os(host, lsb, osrel) IN
           /\ os_type' = d.os_type
           /\ distro' = d.distro
           /\ IF d.os_type = "Windows"
              THEN Exit(1, "fatal") /\ UNCHANGED <<pc, cwd>>
              ELSE pc' = "resolve" /\ cwd' = geant4_dir /\ UNCHANGED exit
    /\ Enter("DetectOS")
    /\ UNCHANGED <<machine, versions, version, cores, stdin, log>>

\* get_latest_geant4_version up to the printed menu: the page is fetched,
\* matched, deduplicated and sorted; no version at all is fatal
FetchTags(universe) ==
    /\ At("resolve")
    /\ \E matches \in TagPages(universe) :
         \E sorted \in SortedDescending(SetOf(matches)) :
           /\ versions' = sorted
           /\ IF sorted = <<>>
              THEN Exit(1, "fatal") /\ UNCHANGED pc
              ELSE pc' = "choose" /\ UNCHANGED exit
    /\ Enter("ResolveVersion")
    /\ UNCHANGED <<machine, os_type, distro, version, cores, stdin, cwd, log>>

\* One pass of the `while True` of get_latest_geant4_version.  versions[choice - 1]
\* on a list shorter than choice raises IndexError, which `except ValueError`
\* does not catch.
ChooseVersion ==
    /\ At("choose")
    /\ \E line \in ChoiceInputs :
         LET choice == ParseInt(line) IN
           /\ stdin' = line
           /\ IF choice.ok /\ 1 <= choice.val /\ choice.val <= MaxChoice
              THEN IF choice.val <= Len(versions)
                   THEN /\ version' = versions[choice.val]
                        /\ pc' = "tarball"
                        /\ UNCHANGED exit
                   ELSE /\ Exit(1, "exception")
                        /\ UNCHANGED <<pc, version>>
              ELSE UNCHANGED <<pc, version, exit>>
    /\ UNCHANGED <<machine, os_type, distro, versions, cores, cwd, log, stages>>

\* a menu answer compared as typed, but for surrounding blanks
MenuChoiceAsTyped(line) == Strip(line)

\* input(...).strip().lower()
MenuChoice(line) == Lower(Strip(line))

\* if os.path.exists(tarball): the three-way menu
TarballMenu ==
    /\ At("tarball")
    /\ IF Exists(tarball(version))
       THEN \E line \in MenuInputs :
              LET choice == MenuChoice(line) IN
                /\ stdin' = line
                /\ log' = Append(log, InputEvent("tarball", line))
                /\ IF choice = "r" THEN pc' = "rm_tarball" /\ UNCHANGED exit
                   ELSE IF choice = "s" THEN pc' = "extract" /\ UNCHANGED exit
                   ELSE Exit(0, "abort") /\ UNCHANGED pc
       ELSE pc' = "download" /\ UNCHANGED <<stdin, log, exit>>
    /\ Enter("FetchSource")
    /\ UNCHANGED <<machine, locals, cwd>>

\* run_command(f"rm -f {tarball}", ...)
RemoveTarball ==
    /\ At("rm_tarball")
    /\ \E ok \in BOOLEAN :
         /\ run_command("rm -f " \o tarball(version), "Removing existing tarball", ok,
                       "download")
         /\ fs' = IF ok THEN RemoveFile(fs, tarball(version)) ELSE fs
    /\ UNCHANGED <<host, bashrc, run, aborted, locals, stdin, cwd, stages>>

\* run_command(f"wget {tar_url}", ...); a failed download may leave a partial file
Download ==
    /\ At("download")
    /\ \E ok \in BOOLEAN :
         /\ run_command("wget " \o tar_url(version), "Downloading Geant4 Source", ok,
                       "extract")
         /\ IF ok THEN fs' = SetFile(fs, tarball(version), "file")
                  ELSE fs' \in {fs, SetFile(fs, tarball(version), "file")}
    /\ UNCHANGED <<host, bashrc, run, aborted, locals, stdin, cwd, stages>>

\* run_command(f"tar xzfv {tarball}", ...); tar cannot succeed without the file
Extract ==
    /\ At("extract")
    /\ \E ok \in IF Exists(tarball(version)) THEN BOOLEAN ELSE {FALSE} :
         /\ run_command("tar xzfv " \o tarball(version), "Extracting Source Code", ok,
                       "builddir")
         /\ fs' = IF ok THEN SetFile(fs, src_dir(version), "nonempty_dir") ELSE fs
    /\ UNCHANGED <<host, bashrc, run, aborted, locals, stdin, cwd, stages>>

\* if os.path.exists(build_dir): ... else: os.makedirs(build_dir)
BuildDirMenu ==
    /\ At("builddir")
    /\ IF Exists(build_dir(version))
       THEN IF fs[build_dir(version)] = "nonempty_dir"
            THEN \E line \in MenuInputs :
                   LET choice == MenuChoice(line) IN
                     /\ stdin' = line
                     /\ log' = Append(log, InputEvent("builddir", line))
                     /\ IF choice = "c" THEN pc' = "rm_build" /\ UNCHANGED exit
                        ELSE IF choice = "s" THEN pc' = "chdir" /\ UNCHANGED exit
                        ELSE Exit(0, "abort") /\ UNCHANGED pc
                     /\ UNCHANGED fs
            ELSE pc' = "chdir" /\ UNCHANGED <<stdin, log, exit, fs>>
       ELSE /\ fs' = SetFile(fs, build_dir(version), "empty_dir")
            /\ pc' = "chdir"
            /\ UNCHANGED <<stdin, log, exit>>
    /\ Enter("PrepareBuildDir")
    /\ UNCHANGED <<host, bashrc, run, aborted, locals, cwd>>

\* rm -rf without the os.makedirs that follows it
RemovedBuildDir(f, v) == RemoveFile(f, build_dir(v))

\* the build directory after a successful rm -rf and os.makedirs(build_dir)
ClearedBuildDir(f, v) == SetFile(RemoveFile(f, build_dir(v)), build_dir(v), "empty_dir")

\* run_command(f"rm -rf {build_dir}", ...); os.makedirs(build_dir)
ClearBuildDir ==
    /\ At("rm_build")
    /\ \E ok \in BOOLEAN :
         /\ run_command("rm -rf " \o build_dir(version), "Clearing build directory", ok,
                       "chdir")
         /\ fs' = IF ok THEN ClearedBuildDir(fs, version) ELSE fs
    /\ UNCHANGED <<host, bashrc, run, aborted, locals, stdin, cwd, stages>>

\* os.chdir(build_dir): FileNotFoundError when the directory is missing
ChangeToBuildDir ==
    /\ At("chdir")
    /\ IF Exists(build_dir(version))
       THEN /\ cwd' = geant4_dir \o "/" \o build_dir(version)
            /\ pc' = "deps"
            /\ UNCHANGED exit
       ELSE Exit(1, "exception") /\ UNCHANGED <<pc, cwd>>
    /\ UNCHANGED <<machine, locals, stdin, log, stages>>

\* install_packages(distro): distro.lower() on None raises AttributeError
install_packages ==
    /\ At("deps")
    /\ IF distro.type # "str"
       THEN Exit(1, "exception") /\ UNCHANGED <<pc, log>>
       ELSE LET pkg == pkg_cmd(distro.val, host.release) IN
              IF pkg.found
              THEN \E ok \in BOOLEAN :
                     run_command(pkg.cmd, "Installing dependencies", ok, "instructions")
              ELSE pc' = "instructions" /\ UNCHANGED <<exit, log>>
    /\ Enter("InstallDependencies")
    /\ UNCHANGED <<machine, locals, stdin, cwd>>

\* the instructions go to a temporary file; run_command(f"xdg-open {temp_path}", ...)
ShowInstructions ==
    /\ At("instructions")
    /\ \E ok \in BOOLEAN :
         run_command("xdg-open /tmp/instructions.txt", "Opening CMake Instructions", ok,
                    "configure")
    /\ Enter("ShowInstructions")
    /\ UNCHANGED <<machine, locals, stdin, cwd>>

\* input("Press Enter ..."); run_command(f"ccmake ../{src_dir}", ...);
\* input("Press Enter after ...").  ccmake writes its cache into the build
\* directory; a failed ccmake may or may not have written anything.
Configure ==
    /\ At("configure")
    /\ stdin' = ""
    /\ \E ok \in BOOLEAN :
         /\ run_command("ccmake ../" \o src_dir(version), "Running CMake", ok, "cores")
         /\ IF ok THEN fs' = SetFile(fs, build_dir(version), "nonempty_dir")
                  ELSE fs' \in {fs, SetFile(fs, build_dir(version), "nonempty_dir")}
    /\ Enter("Configure")
    /\ UNCHANGED <<host, bashrc, run, aborted, locals, cwd>>

\* the test of get_cpu_cores with >= in place of >
AcceptsCoresFromZero(n) == n >= 0

\* if cores > 0
AcceptsCores(n) == n > 0

\* One pass of the `while True` of get_cpu_cores
get_cpu_cores ==
    /\ At("cores")
    /\ \E line \in CoreInputs :
         LET parsed == ParseInt(Strip(line)) IN
           /\ stdin' = line
           /\ IF parsed.ok /\ AcceptsCores(parsed.val)
              THEN cores' = parsed.val /\ pc' = "make"
              ELSE UNCHANGED <<cores, pc>>
    /\ Enter("Compile")
    /\ UNCHANGED <<machine, os_type, distro, versions, version, exit, cwd, log>>

\* run_command(f"make -j{cores}", ...)
Compile ==
    /\ At("make")
    /\ \E ok \in BOOLEAN :
         run_command("make -j" \o IntToStr(cores), "Compiling Geant4", ok, "make_install")
    /\ fs' = SetFile(fs, build_dir(version), "nonempty_dir")
    /\ UNCHANGED <<host, bashrc, run, aborted, locals, stdin, cwd, stages>>

\* run_command("make install", ...)
Install ==
    /\ At("make_install")
    /\ \E ok \in BOOLEAN :
         /\ run_command("make install", "Installing Geant4", ok, "patch")
         /\ fs' = IF ok THEN SetFile(fs, "geant4-v" \o version \o "-install", "nonempty_dir")
                        ELSE fs
    /\ Enter("Install")
    /\ UNCHANGED <<host, bashrc, run, aborted, locals, stdin, cwd>>

\* a profile patch that skips an alias line already present
WriteProfileOnce(file, v) ==
    IF \E i \in 1..Len(file) : file[i] = "\n" \o alias_cmd(v) \o "\n" THEN file
    ELSE Append(file, "\n" \o alias_cmd(v) \o "\n")

\* with open(bashrc, "a") as f: f.write(f"\n{alias_cmd}\n")
WriteProfile(file, v) == Append(file, "\n" \o alias_cmd(v) \o "\n")

\* the .bashrc write, the closing messages, and the return of install_geant4
PatchShellProfile ==
    /\ At("patch")
    /\ bashrc' = WriteProfile(bashrc, version)
    /\ pc' = "end"
    /\ Exit(0, "completed")
    /\ Enter("PatchShellProfile")
    /\ UNCHANGED <<host, fs, run, aborted, locals, stdin, cwd, log>>

\* The script is started again on the same machine
Restart ==
    /\ exit.exited
    /\ run < MaxRuns
    /\ run' = run + 1
    /\ aborted' = IF pc = "end" THEN aborted ELSE aborted + 1
    /\ pc' = "start"
    /\ exit' = Running
    /\ os_type' = ""
    /\ distro' = Str("")
    /\ versions' = <<>>
    /\ version' = ""
    /\ cores' = 0
    /\ stdin' = ""
    /\ cwd' = "."
    /\ log' = <<>>
    /\ stages' = <<>>
    /\ UNCHANGED <<host, fs, bashrc>>

Next ==
    \/ DetectOS
    \/ FetchTags(PipelineTags)
    \/ ChooseVersion
    \/ TarballMenu
    \/ RemoveTarball
    \/ Download
    \/ Extract
    \/ BuildDirMenu
    \/ ClearBuildDir
    \/ ChangeToBuildDir
    \/ install_packages
    \/ ShowInstructions
    \/ Configure
    \/ get_cpu_cores
    \/ Compile
    \/ Install
    \/ PatchShellProfile
    \/ Restart

Spec == Init /\ [][Next]_vars

(***************************************************************************)
(* get_latest_geant4_version on its own, over a page with many tags        *)
(***************************************************************************)
NextResolver ==
    \/ DetectOS
    \/ FetchTags(ResolverTags)
    \/ ChooseVersion

SpecResolver == Init /\ [][NextResolver]_vars

(***************************************************************************)
(* install_packages on its own, over many distro descriptions              *)
(***************************************************************************)
DistroNames ==
    { "Arch Linux", "ARCH", "Manjaro Linux",
      "Ubuntu 22.04.3 LTS", "ubuntu", "Debian GNU/Linux 12 (bookworm)",
      "Linux Mint 21.3", "LMDE 6 (Debian, Mint)",
      "openSUSE Leap 15.5", "OPENSUSE Tumbleweed",
      "Rocky Linux 9.3 (Blue Onyx)", "RHEL 9.3", "Red Hat Enterprise Linux 9.3",
      "Fedora Linux 40 (Workstation Edition)", "FEDORA",
      "Fedora Asahi Remix 40 (aarch64)", "Ubuntu on Rocky",
      "Unknown", "N/A", "" }

PackageHosts ==
    { [os_name |-> "posix", system |-> "Linux", release |-> "6.8.0-45-generic"],
      [os_name |-> "posix", system |-> "Linux", release |-> "41.0.1-custom"],
      [os_name |-> "posix", system |-> "Linux", release |-> "4.4.0-19041-Microsoft"] }

\* A first run on a fresh machine that has reached install_packages(distro)
\* with version 11.2.2, for every host and every distro description
InitPackages ==
    /\ host \in PackageHosts
    /\ distro \in {Str(d) : d \in DistroNames}
    /\ os_type = detect_os(host, [ok |-> TRUE, stdout |-> distro.val], [readable |-> FALSE, lines |-> <<>>]).os_type
    /\ fs = SetFile(SetFile(SetFile([x \in {} |-> "file"],
                tarball("11.2.2"), "file"),
                src_dir("11.2.2"), "nonempty_dir"),
                build_dir("11.2.2"), "empty_dir")
    /\ bashrc = <<>>
    /\ run = 1
    /\ aborted = 0
    /\ pc = "deps"
    /\ exit = Running
    /\ versions = <<"11.2.2">>
    /\ version = "11.2.2"
    /\ cores = 0
    /\ stdin = "1"
    /\ cwd = geant4_dir \o "/" \o build_dir("11.2.2")
    /\ log = << CommandEvent("wget " \o tar_url("11.2.2"), "Downloading Geant4 Source", TRUE),
                CommandEvent("tar xzfv " \o tarball("11.2.2"), "Extracting Source Code", TRUE) >>
    /\ stages = <<"DetectOS", "ResolveVersion", "FetchSource", "PrepareBuildDir">>

NextPackages ==
    \/ install_packages
    \/ ShowInstructions

SpecPackages == InitPackages /\ [][NextPackages]_vars

(***************************************************************************)
(* Properties                                                              *)
(***************************************************************************)
LastOf(seq) == seq[Len(seq)]

KindOf(path) == IF Exists(path) THEN fs[path] ELSE "absent"

Began(stage) == \E i \in 1..Len(stages) : stages[i] = stage

IsRun(e, description) == e.kind = "run" /\ e.desc = description

Events(kind, description) ==
    {i \in 1..Len(log) : log[i].kind = kind /\ log[i].desc = description}

Answered(k, letter) == log[k].text \in {letter, Lower(letter)}

FatalCondition ==
    \/ log # <<>> /\ LastOf(log).kind = "run" /\ ~LastOf(log).ok
    \/ stages # <<>> /\ LastOf(stages) = "ResolveVersion" /\ versions = <<>>
    \/ os_type = "Windows"

UserAbort ==
    /\ log # <<>>
    /\ LastOf(log).kind = "input"
    /\ Lower(Strip(LastOf(log).text)) \notin {"r", "c", "s"}

\* C1: every run ends with status 0 or 1; 0 exactly when the run completed or
\* the user aborted at one of the two menus; 1 exactly when a command run
\* through run_command failed, no version was found, or the host is Windows.
C1_ExitStatus ==
    exit.exited =>
        /\ exit.code \in {0, 1}
        /\ exit.code = 0 <=> (pc = "end" \/ UserAbort)
        /\ exit.code = 1 <=> FatalCondition

StageOrder ==
    <<"DetectOS", "ResolveVersion", "FetchSource", "PrepareBuildDir",
      "InstallDependencies", "ShowInstructions", "Configure", "Compile",
      "Install", "PatchShellProfile">>

\* C2: the stages of a run are begun in the order of the pipeline, each at
\* most once, none after a failed command or on Windows, and never again
\* once a later stage has begun.
C2_StagesInOrder ==
    /\ Len(stages) <= Len(StageOrder)
    /\ \A i \in 1..Len(stages) : stages[i] = StageOrder[i]
    /\ \A i \in 1..Len(log) :
         ~log[i].ok => i = Len(log) /\ exit.exited /\ exit.code = 1
    /\ os_type = "Windows" => stages = <<"DetectOS">> /\ exit.exited
    /\ exit.exited /\ pc # "end" => ~Began("PatchShellProfile")

C2_Witness == stages = StageOrder /\ exit.exited /\ exit.code = 0

\* C3: the version prompt ends only by returning the version shown in the
\* menu under the number typed; it never ends in another way.
C3_ResolverReturnsDisplayed ==
    /\ pc = "choose" => ~exit.exited
    /\ pc = "tarball" =>
         /\ ParseInt(stdin).ok
         /\ ParseInt(stdin).val \in 1..Len(Menu(versions))
         /\ version = Menu(versions)[ParseInt(stdin).val]

\* C4: the versions offered are strictly descending by numeric tuple, hold no
\* duplicate, and number min(5, distinct versions found).
C4_MenuStrictlyDescending ==
    pc = "choose" =>
        LET menu == Menu(versions) IN
          /\ \A i \in 1..(Len(menu) - 1) :
               ListLess(VersionKey(menu[i + 1]), VersionKey(menu[i]))
          /\ \A i, j \in 1..Len(menu) :
               i # j => VersionKey(menu[i]) # VersionKey(menu[j])
          /\ Len(menu) = IF Cardinality(SetOf(versions)) < 5
                         THEN Cardinality(SetOf(versions)) ELSE 5

DownloadStep == "Downloading Geant4 Source"

ExtractStep == "Extracting Source Code"

\* C5: at the tarball menu, "S" runs no download and extracts the existing
\* file; "A" exits 0 with nothing run afterwards; "R" removes the file, then
\* downloads, then extracts.  Without a tarball the download runs unprompted,
\* and a successful download is always followed by the extraction.
C5_TarballMenu ==
    /\ \A i \in Events("run", DownloadStep) : log[i].text = "wget " \o tar_url(version)
    /\ \A i \in Events("run", ExtractStep) : log[i].text = "tar xzfv " \o tarball(version)
    /\ \A k \in Events("input", "tarball") :
         /\ Len(log) = k => Exists(tarball(version))
         /\ Answered(k, "S") =>
              /\ Events("run", DownloadStep) = {}
              /\ IF Len(log) = k THEN At("extract") /\ Exists(tarball(version))
                 ELSE IsRun(log[k + 1], ExtractStep)
         /\ Answered(k, "A") =>
              /\ Len(log) = k
              /\ exit.exited /\ exit.code = 0
              /\ LastOf(stages) = "FetchSource"
         /\ Answered(k, "R") =>
              /\ IF Len(log) = k THEN At("rm_tarball")
                 ELSE /\ IsRun(log[k + 1], "Removing existing tarball")
                      /\ log[k + 1].text = "rm -f " \o tarball(version)
              /\ Len(log) = k + 1 =>
                   IF log[k + 1].ok THEN At("download") /\ ~Exists(tarball(version))
                   ELSE exit.exited /\ exit.code = 1
              /\ Len(log) > k + 1 => log[k + 1].ok /\ IsRun(log[k + 2], DownloadStep)
    /\ Began("FetchSource") /\ Events("input", "tarball") = {} =>
         IF log = <<>> THEN At("download") /\ ~Exists(tarball(version))
         ELSE IsRun(log[1], DownloadStep)
    /\ \A i \in Events("run", DownloadStep) :
         log[i].ok => IF Len(log) = i THEN At("extract") /\ Exists(tarball(version))
                      ELSE IsRun(log[i + 1], ExtractStep)

C5_Witness ==
    /\ \E k \in Events("input", "tarball") : Answered(k, "S") /\ log[k].text = "S"
    /\ Events("run", ExtractStep) # {}
    /\ run = 2

ClearStep == "Clearing build directory"

BeforeConfigure == pc \in {"chdir", "deps", "instructions"} \/ At("configure")

\* C6: at the build-directory step, "C" on a non-empty directory leaves it
\* removed and recreated empty before the chdir; "S" leaves its contents;
\* "A" exits 0 before the dependencies; an absent directory is created
\* unprompted; whenever the run continues the directory exists at the chdir.
C6_BuildDirMenu ==
    /\ \A k \in Events("input", "builddir") :
         /\ Len(log) = k => KindOf(build_dir(version)) = "nonempty_dir"
         /\ Answered(k, "C") =>
              /\ IF Len(log) = k THEN At("rm_build")
                 ELSE /\ IsRun(log[k + 1], ClearStep)
                      /\ log[k + 1].text = "rm -rf " \o build_dir(version)
              /\ Len(log) > k /\ ~log[k + 1].ok => exit.exited /\ pc = "rm_build"
              /\ Len(log) > k /\ log[k + 1].ok /\ BeforeConfigure =>
                   KindOf(build_dir(version)) = "empty_dir"
         /\ Answered(k, "S") =>
              /\ KindOf(build_dir(version)) = "nonempty_dir"
              /\ Events("run", ClearStep) = {}
              /\ pc \notin {"builddir", "rm_build"}
         /\ Answered(k, "A") =>
              /\ Len(log) = k
              /\ exit.exited /\ exit.code = 0
              /\ ~Began("InstallDependencies")
    /\ Events("input", "builddir") = {} /\ BeforeConfigure =>
         Exists(build_dir(version)) /\ KindOf(build_dir(version)) = "empty_dir"
    /\ pc = "chdir" => ~exit.exited /\ Exists(build_dir(version))
    /\ Began("InstallDependencies") =>
         /\ Exists(build_dir(version))
         /\ cwd = geant4_dir \o "/" \o build_dir(version)

C6_Witness ==
    /\ \E k \in Events("input", "builddir") :
         Answered(k, "C") /\ Len(log) > k /\ log[k + 1].ok
    /\ pc = "deps"
    /\ KindOf(build_dir(version)) = "empty_dir"

Families == {"arch", "debian", "opensuse", "rhel", "fedora"}

FamilyKeywords(f) ==
    CASE f = "arch"     -> {"arch"}
      [] f = "debian"   -> {"ubuntu", "debian", "mint"}
      [] f = "opensuse" -> {"opensuse"}
      [] f = "rhel"     -> {"rocky", "rhel"}
      [] f = "fedora"   -> {"fedora"}

FamilyTemplates(f) ==
    CASE f = "arch"     -> {PacmanCmd}
      [] f = "debian"   -> {AptCmd}
      [] f = "opensuse" -> {ZypperCmd}
      [] f = "rhel"     -> {DnfRhelCmd}
      [] f = "fedora"   -> {Dnf5FedoraCmd, DnfFedoraCmd}

MatchingFamilies(d) ==
    {f \in Families : \E kw \in FamilyKeywords(f) : Contains(kw, Lower(d))}

DepsStep == "Installing dependencies"

\* C7: a distro string that contains a known substring, in any letter case,
\* makes install_packages run exactly one command, a template of a family
\* whose substring it contains, and a nonzero exit of it is fatal; a string
\* with no known substring runs no command and the run continues.
C7_InstallPackages ==
    Began("InstallDependencies") /\ distro.type = "str" =>
        IF MatchingFamilies(distro.val) # {}
        THEN /\ Cardinality(Events("run", DepsStep)) = 1
             /\ \A i \in Events("run", DepsStep) :
                  /\ \E f \in MatchingFamilies(distro.val) : log[i].text \in FamilyTemplates(f)
                  /\ ~log[i].ok => exit.exited /\ exit.code = 1 /\ i = Len(log)
                  /\ log[i].ok /\ i = Len(log) => At("instructions")
        ELSE /\ Events("run", DepsStep) = {}
             /\ LastOf(stages) = "InstallDependencies" => At("instructions")

C7_Witness ==
    /\ distro = Str("FEDORA")
    /\ \E i \in Events("run", DepsStep) : log[i].text = Dnf5FedoraCmd /\ log[i].ok
    /\ Began("ShowInstructions")

MakeStep == "Compiling Geant4"

C8_Step ==
    At("cores") =>
        LET typed == ParseInt(stdin') IN
          IF typed.ok /\ typed.val > 0
          THEN cores' = typed.val /\ pc' = "make" /\ log' = log
          ELSE pc' = "cores" /\ cores' = cores /\ log' = log /\ ~exit'.exited

C8_Compiled ==
    /\ pc \in {"make", "make_install", "patch", "end"} =>
         cores > 0 /\ ParseInt(stdin) = [ok |-> TRUE, val |-> cores]
    /\ \A i \in Events("run", MakeStep) : log[i].text = "make -j" \o IntToStr(cores)
    /\ Cardinality(Events("run", MakeStep)) <= 1

\* C8: at the CPU-core prompt every line that is not a positive integer is
\* answered by the prompt again, with nothing else done; the first positive
\* integer is returned as typed and is the -j value of the compile command.
C8_GetCpuCores == [][C8_Step]_vars /\ []C8_Compiled

C8_Witness ==
    /\ stdin = " 2 "
    /\ \E i \in Events("run", MakeStep) : log[i].text = "make -j2"

\* C9: detect_os always returns an OS type among Windows, WSL and Linux and a
\* distro description that is a string.
C9_DetectorReturnsString ==
    Began("DetectOS") =>
        /\ os_type \in {"Windows", "WSL", "Linux"}
        /\ distro.type = "str"

InstallStep == "Installing Geant4"

AliasLines(chunk) ==
    LET lines == Split(chunk, "\n") IN {i \in 1..Len(lines) : lines[i] # ""}

C10_Step ==
    bashrc' # bashrc =>
        /\ At("patch")
        /\ \E i \in Events("run", MakeStep) : log[i].ok
        /\ \E i \in Events("run", InstallStep) : log[i].ok
        /\ Len(bashrc') = Len(bashrc) + 1
        /\ SubSeq(bashrc', 1, Len(bashrc)) = bashrc
        /\ Split(LastOf(bashrc'), "\n") = <<"", alias_cmd(version), "">>

C10_Lines ==
    /\ Len(bashrc) = (run - 1) - aborted + (IF pc = "end" THEN 1 ELSE 0)
    /\ \A i \in 1..Len(bashrc) : Cardinality(AliasLines(bashrc[i])) = 1
    /\ exit.exited /\ pc # "end" => ~Began("PatchShellProfile")

\* C10: .bashrc gains exactly one alias line in a run that reaches the patch
\* stage, after a successful compile and install, and nothing in any other
\* run; N completed runs leave N lines, identical for the same version.
C10_ShellProfile == [][C10_Step]_vars /\ []C10_Lines

C10_Witness ==
    /\ Len(bashrc) = 2
    /\ bashrc[1] = bashrc[2]
    /\ aborted = 0

====
